---- MODULE Spec2Model ----
(***************************************************************************)
(* Model of extraction/techniques.py: the five extraction techniques       *)
(* (HeadTags, FacebookOpengraphTags, HTML5SemanticTags, SemanticTags,      *)
(* Twitter), each run on a parsed document.  The parser (BeautifulSoup) is *)
(* modelled by what the techniques ask of it: find / find_all by tag name  *)
(* in document order, attribute lookup (KeyError when the attribute is     *)
(* absent), and the text nodes of an element.                              *)
(*                                                                         *)
(* Strings are TLA+ strings; startswith, slicing, replace, strip and join  *)
(* are computed character by character with Len, SubSeq and \o.            *)
(***************************************************************************)
EXTENDS Integers, Sequences, FiniteSets, TLC

VARIABLES
    tech,       \* the technique whose extract() is running
    pc,         \* position inside extract(): a loop name, "done" or "error"
    doc,        \* the elements of the parsed document (for the meta loops of
                \* FacebookOpengraphTags and Twitter: the tags iterated so far)
    idx,        \* number of loop iterations completed in the current loop
    extracted,  \* the dict `extracted` (field name -> value)
    locals      \* the other local collections of extract(): og_tags, card,
                \* or titles/descriptions/videos

vars == <<tech, pc, doc, idx, extracted, locals>>

-----------------------------------------------------------------------------
(* Bounds of the model *)

\* longest sequence of <meta> tags fed to FacebookOpengraphTags / Twitter
MaxMeta == 2
\* longest document (title, meta and link elements) fed to HeadTags
MaxHead == 2
\* most <article> / <video> elements in a document fed to HTML5SemanticTags
MaxBlocks == 3
\* most <h1>, <h2>, <h3>, <p>, <img> elements in a document fed to SemanticTags
MaxH1 == 5
MaxH2 == 4
MaxH3 == 2
MaxP == 6
MaxImg == 11

-----------------------------------------------------------------------------
(* Python strings *)

\* s.startswith(p)
StartsWith(s, p) == Len(s) >= Len(p) /\ SubSeq(s, 1, Len(p)) = p

\* s[n:]
SliceFrom(s, n) == SubSeq(s, n + 1, Len(s))

RECURSIVE Replace_FirstOnly(_, _, _)
\* the slip C8 rules out: s.replace(old, new, 1), only the first occurrence
Replace_FirstOnly(s, old, new) ==
    IF Len(s) = 0 THEN ""
    ELSE IF SubSeq(s, 1, 1) = old THEN new \o SliceFrom(s, 1)
    ELSE SubSeq(s, 1, 1) \o Replace_FirstOnly(SliceFrom(s, 1), old, new)

RECURSIVE Replace(_, _, _)
\* s.replace(old, new) for a one-character old
Replace(s, old, new) ==
    IF Len(s) = 0 THEN ""
    ELSE (IF SubSeq(s, 1, 1) = old THEN new ELSE SubSeq(s, 1, 1))
         \o Replace(SliceFrom(s, 1), old, new)

IsSpace(c) == c = " "

RECURSIVE LStrip(_)
LStrip(s) ==
    IF Len(s) > 0 /\ IsSpace(SubSeq(s, 1, 1)) THEN LStrip(SliceFrom(s, 1)) ELSE s

RECURSIVE RStrip(_)
RStrip(s) ==
    IF Len(s) > 0 /\ IsSpace(SubSeq(s, Len(s), Len(s)))
    THEN RStrip(SubSeq(s, 1, Len(s) - 1)) ELSE s

\* s.strip()
Strip(s) == RStrip(LStrip(s))

RECURSIVE Join(_, _)
\* sep.join(strs)
Join(sep, strs) ==
    IF Len(strs) = 0 THEN ""
    ELSE IF Len(strs) = 1 THEN strs[1]
    ELSE strs[1] \o sep \o Join(sep, Tail(strs))

-----------------------------------------------------------------------------
(* Python dicts: functions whose DOMAIN is the set of keys present *)

EmptyDict == [k \in {} |-> ""]

\* the slip C7 rules out: d.setdefault(k, v), the first value is kept
Put_KeepFirst(d, k, v) ==
    IF k \in DOMAIN d THEN d
    ELSE [x \in (DOMAIN d) \cup {k} |-> IF x = k THEN v ELSE d[x]]

\* d[k] = v
Put(d, k, v) == [x \in (DOMAIN d) \cup {k} |-> IF x = k THEN v ELSE d[x]]

\* d.setdefault(k, []).append(v)
AppendTo(d, k, v) == Put(d, k, Append(IF k \in DOMAIN d THEN d[k] ELSE <<>>, v))

\* an element's attrs: `a in tag.attrs`; tag[a] raises KeyError when this is false
HasAttr(tag, a) == a \in DOMAIN tag.attrs

\* all attribute dicts over the attribute names `names` with values drawn
\* from vals[name]; an attribute may be absent
AttrDicts(names, vals) ==
    UNION { {f \in [S -> UNION {vals[n] : n \in names}] :
                \A n \in S : f[n] \in vals[n]} : S \in SUBSET names }

-----------------------------------------------------------------------------
(* FacebookOpengraphTags *)

property_map ==
    [k \in {"og:title", "og:url", "og:image", "og:description", "og:type"} |->
        CASE k = "og:title"       -> "titles"
          [] k = "og:url"         -> "urls"
          [] k = "og:image"       -> "images"
          [] k = "og:description" -> "descriptions"
          [] k = "og:type"        -> "types"]

\* identifiers and contents the <meta> tags of the model carry
OgProperties == {"og:type", "og:site_name", "og:a:b:c", "og:a_b:c", "fb:admins"}
OgNames == {"og:type", "og:title"}
OgContents == {" ", "a", " b"}

OgMetaTags ==
    { [tag |-> "meta", attrs |-> a] :
        a \in AttrDicts({"property", "name", "content"},
                        [property |-> OgProperties, name |-> OgNames,
                         content |-> OgContents]) }

\* the slip C5 rules out: a loop body without the outer `except KeyError`
OgCaught_Nothing == {}

\* the exceptions the `except KeyError: pass` clause around the loop body catches
OgCaught == {"KeyError"}

\* the slip C6 rules out: the property_map lookup placed before the og_tags
\* assignment, so that an unmapped property leaves og_tags as it was
OgBody_LookupFirst(meta_tag, og_tags, ext) ==
    LET Out(exc, og, ex) == [exc |-> exc, og_tags |-> og, extracted |-> ex]
    IN
    IF ~HasAttr(meta_tag, "property") /\ ~HasAttr(meta_tag, "name")
    THEN Out("KeyError", og_tags, ext)
    ELSE
    LET property_ == IF HasAttr(meta_tag, "property")
                     THEN meta_tag.attrs["property"]
                     ELSE meta_tag.attrs["name"]
    IN
    IF ~StartsWith(property_, "og:") THEN Out("none", og_tags, ext)
    ELSE IF ~HasAttr(meta_tag, "content") THEN Out("KeyError", og_tags, ext)
    ELSE
    LET content == Strip(meta_tag.attrs["content"])
        og_prop == Replace(SliceFrom(property_, Len("og:")), ":", "_")
        og_tags2 == Put(og_tags, og_prop, content)
    IN
    IF content = "" THEN Out("none", og_tags, ext)
    ELSE IF property_ \notin DOMAIN property_map
         THEN Out("KeyError", og_tags, ext)
         ELSE Out("none", og_tags2, AppendTo(ext, property_map[property_], content))

\* One iteration of `for meta_tag in soup.find_all('meta')`: the state of
\* og_tags and extracted when the body is left, and the exception (if any)
\* that left it.
OgBody(meta_tag, og_tags, ext) ==
    LET Out(exc, og, ex) == [exc |-> exc, og_tags |-> og, extracted |-> ex]
    IN
    IF ~HasAttr(meta_tag, "property") /\ ~HasAttr(meta_tag, "name")
    THEN Out("KeyError", og_tags, ext)
    ELSE
    LET property_ == IF HasAttr(meta_tag, "property")
                     THEN meta_tag.attrs["property"]
                     ELSE meta_tag.attrs["name"]
    IN
    IF ~StartsWith(property_, "og:") THEN Out("none", og_tags, ext)
    ELSE IF ~HasAttr(meta_tag, "content") THEN Out("KeyError", og_tags, ext)
    ELSE
    LET content == Strip(meta_tag.attrs["content"])
        og_prop == Replace(SliceFrom(property_, Len("og:")), ":", "_")
        og_tags2 == Put(og_tags, og_prop, content)
    IN
    IF content = "" THEN Out("none", og_tags, ext)
    ELSE IF property_ \notin DOMAIN property_map
         THEN Out("KeyError", og_tags2, ext)
         ELSE Out("none", og_tags2, AppendTo(ext, property_map[property_], content))

\* the loop takes the next <meta> tag of the document
OgStep ==
    /\ tech = "FacebookOpengraphTags" /\ pc = "meta"
    /\ Len(doc) < MaxMeta
    /\ \E meta_tag \in OgMetaTags :
        LET out == OgBody(meta_tag, locals.og_tags, extracted) IN
        /\ doc' = Append(doc, meta_tag)
        /\ idx' = idx + 1
        /\ locals' = [og_tags |-> out.og_tags]
        /\ extracted' = out.extracted
        /\ pc' = IF out.exc = "none" \/ out.exc \in OgCaught THEN "meta" ELSE "error"
    /\ UNCHANGED tech

\* the slip C2 rules out: og_tags returned without the og:type guard
OgReturn_Unguarded ==
    /\ tech = "FacebookOpengraphTags" /\ pc = "meta"
    /\ extracted' = Put(extracted, "og_tags", locals.og_tags)
    /\ pc' = "done"
    /\ UNCHANGED <<tech, doc, idx, locals>>

\* the loop is over: the og:type guard and the return
OgReturn ==
    /\ tech = "FacebookOpengraphTags" /\ pc = "meta"
    /\ extracted' = IF "type" \in DOMAIN locals.og_tags
                    THEN Put(extracted, "og_tags", locals.og_tags)
                    ELSE extracted
    /\ pc' = "done"
    /\ UNCHANGED <<tech, doc, idx, locals>>

InitOg ==
    /\ tech = "FacebookOpengraphTags" /\ pc = "meta"
    /\ doc = <<>> /\ idx = 0
    /\ extracted = EmptyDict
    /\ locals = [og_tags |-> EmptyDict]

NextOg == OgStep \/ OgReturn

SpecOg == InitOg /\ [][NextOg]_vars

-----------------------------------------------------------------------------
(* Twitter *)

TwNames == {"twitter:card", "twitter:app:id:ipad", "twitter:app_id:ipad", "og:type"}
TwProperties == {"twitter:card", "twitter:site"}
TwContents == {"", "a", "b"}

TwMetaTags ==
    { [tag |-> "meta", attrs |-> a] :
        a \in AttrDicts({"name", "property", "content"},
                        [name |-> TwNames, property |-> TwProperties,
                         content |-> TwContents]) }

\* the exceptions the `except KeyError: pass` clause around the loop body catches
TwCaught == {"KeyError"}

\* the slip C3 rules out: the identifier read from property first, as
\* FacebookOpengraphTags does
TwBody_PropertyFirst(meta_tag, card) ==
    LET Out(exc, c) == [exc |-> exc, card |-> c] IN
    IF ~HasAttr(meta_tag, "name") /\ ~HasAttr(meta_tag, "property")
    THEN Out("KeyError", card)
    ELSE
    LET property_ == IF HasAttr(meta_tag, "property")
                     THEN meta_tag.attrs["property"]
                     ELSE meta_tag.attrs["name"]
        key == Replace(SliceFrom(property_, Len("twitter:")), ":", "_")
    IN
    IF ~StartsWith(property_, "twitter:") THEN Out("none", card)
    ELSE IF ~HasAttr(meta_tag, "content") THEN Out("KeyError", card)
    ELSE Out("none", Put(card, key, meta_tag.attrs["content"]))

\* One iteration of `for meta_tag in soup.find_all('meta')`: the card when the
\* body is left, and the exception (if any) that left it.
TwBody(meta_tag, card) ==
    LET Out(exc, c) == [exc |-> exc, card |-> c] IN
    IF ~HasAttr(meta_tag, "name") /\ ~HasAttr(meta_tag, "property")
    THEN Out("KeyError", card)
    ELSE
    LET property_ == IF HasAttr(meta_tag, "name")
                     THEN meta_tag.attrs["name"]
                     ELSE meta_tag.attrs["property"]
        key == Replace(SliceFrom(property_, Len("twitter:")), ":", "_")
    IN
    IF ~StartsWith(property_, "twitter:") THEN Out("none", card)
    ELSE IF ~HasAttr(meta_tag, "content") THEN Out("KeyError", card)
    ELSE Out("none", Put(card, key, meta_tag.attrs["content"]))

\* the loop takes the next <meta> tag of the document
TwStep ==
    /\ tech = "Twitter" /\ pc = "meta"
    /\ Len(doc) < MaxMeta
    /\ \E meta_tag \in TwMetaTags :
        LET out == TwBody(meta_tag, locals.card) IN
        /\ doc' = Append(doc, meta_tag)
        /\ idx' = idx + 1
        /\ locals' = [card |-> out.card]
        /\ pc' = IF out.exc = "none" \/ out.exc \in TwCaught THEN "meta" ELSE "error"
    /\ UNCHANGED <<tech, extracted>>

\* the loop is over: the `card` guard and the return
TwReturn ==
    /\ tech = "Twitter" /\ pc = "meta"
    /\ extracted' = IF "card" \in DOMAIN locals.card
                    THEN AppendTo(extracted, "twitter_cards", locals.card)
                    ELSE extracted
    /\ pc' = "done"
    /\ UNCHANGED <<tech, doc, idx, locals>>

InitTw ==
    /\ tech = "Twitter" /\ pc = "meta"
    /\ doc = <<>> /\ idx = 0
    /\ extracted = EmptyDict
    /\ locals = [card |-> EmptyDict]

NextTw == TwStep \/ TwReturn

SpecTw == InitTw /\ [][NextTw]_vars

-----------------------------------------------------------------------------
(* The parser: find_all / find by tag name, in document order *)

\* soup.find_all(name) over the elements `elems`
find_all(elems, name) == SelectSeq(elems, LAMBDA e : e.tag = name)

\* Python None
None == "None"

\* `x in v` for a multi-valued attribute value (bs4 gives `rel` as a list)
PyIn(x, v) == \E i \in 1..Len(v) : v[i] = x

\* `v == x` for a multi-valued attribute value and a str: a list never equals a str
PyEqStr(v, x) == FALSE

\* tag[a]: the value, or KeyError when the element has no attribute a
GetItem(tag, a) ==
    IF HasAttr(tag, a) THEN [exc |-> "none", val |-> tag.attrs[a]]
    ELSE [exc |-> "KeyError", val |-> None]

\* how a loop body without try/except is left: normally, or by an exception
Normal(ext) == [exc |-> "none", extracted |-> ext]
Raised(exc, ext) == [exc |-> exc, extracted |-> ext]

\* the attribute dict `full` cut down to the attributes in S
Restrict(full, S) == [a \in S |-> full[a]]

-----------------------------------------------------------------------------
(* HeadTags *)

meta_name_map ==
    [k \in {"description", "author"} |->
        IF k = "description" THEN "descriptions" ELSE "authors"]

\* <title> elements: one text node, or none (then .string is None)
HeadTitles ==
    { [tag |-> "title", attrs |-> EmptyDict, strings |-> st] : st \in {<<"T">>, <<>>} }

HeadMetaTags ==
    { [tag |-> "meta", attrs |-> a, strings |-> <<>>] :
        a \in AttrDicts({"name", "content"},
                        [name |-> {"description", "author", "keywords"},
                         content |-> {"c"}]) }

Rels == { <<"canonical">>, <<"alternate">>, <<"alternate", "canonical">>,
          <<"stylesheet">> }
LinkTypes == {"application/rss+xml", "text/css"}
Hrefs == {"u1", "u2"}

HeadLinkTags ==
    { [tag |-> "link", attrs |-> Restrict(full, S), strings |-> <<>>] :
        full \in [rel : Rels, type : LinkTypes, href : Hrefs],
        S \in SUBSET {"rel", "type", "href"} }

HeadElems == HeadTitles \cup HeadMetaTags \cup HeadLinkTags

HeadDocs == UNION { [1..n -> HeadElems] : n \in 0..MaxHead }

\* tag.string: the single text node of the element, else None
String(el) == IF Len(el.strings) = 1 THEN el.strings[1] ELSE None

\* title_tag = soup.find('title'); if title_tag: extracted['titles'] = [...]
HeadTitle ==
    /\ tech = "HeadTags" /\ pc = "title"
    /\ LET titles == find_all(doc, "title") IN
        extracted' = IF Len(titles) > 0
                     THEN Put(extracted, "titles", <<String(titles[1])>>)
                     ELSE extracted
    /\ pc' = "meta" /\ idx' = 0
    /\ UNCHANGED <<tech, doc, locals>>

\* the body of `for meta_tag in soup.find_all('meta')` of HeadTags: the
\* dict when the body is left and the exception (if any) that left it
HeadMetaBody(meta_tag, ext) ==
    IF HasAttr(meta_tag, "name") /\ HasAttr(meta_tag, "content")
    THEN LET name == GetItem(meta_tag, "name") IN
         IF name.exc # "none" THEN Raised(name.exc, ext)
         ELSE IF name.val \in DOMAIN meta_name_map
         THEN LET content == GetItem(meta_tag, "content") IN
              IF content.exc # "none" THEN Raised(content.exc, ext)
              ELSE Normal(AppendTo(ext, meta_name_map[name.val], content.val))
         ELSE Normal(ext)
    ELSE Normal(ext)

HeadMeta ==
    /\ tech = "HeadTags" /\ pc = "meta"
    /\ idx < Len(find_all(doc, "meta"))
    /\ LET out == HeadMetaBody(find_all(doc, "meta")[idx + 1], extracted) IN
        /\ extracted' = out.extracted
        /\ pc' = IF out.exc = "none" THEN "meta" ELSE "error"
    /\ idx' = idx + 1
    /\ UNCHANGED <<tech, doc, locals>>

HeadMetaDone ==
    /\ tech = "HeadTags" /\ pc = "meta"
    /\ idx = Len(find_all(doc, "meta"))
    /\ pc' = "link" /\ idx' = 0
    /\ UNCHANGED <<tech, doc, extracted, locals>>

\* the if / elif of the link loop: the field the link's href goes to, or None
LinkDest(link_tag) ==
    IF ~HasAttr(link_tag, "rel") THEN None
    ELSE LET rel == link_tag.attrs["rel"] IN
         IF /\ (PyIn("alternate", rel) \/ PyEqStr(rel, "alternate"))
            /\ HasAttr(link_tag, "type")
            /\ link_tag.attrs["type"] = "application/rss+xml"
            /\ HasAttr(link_tag, "href")
         THEN "feeds"
         ELSE IF /\ (PyIn("canonical", rel) \/ PyEqStr(rel, "canonical"))
                 /\ HasAttr(link_tag, "href")
              THEN "urls"
              ELSE None

\* the body of `for link_tag in soup.find_all('link')`: the dict when the
\* body is left and the exception (if any) that left it
HeadLinkBody(link_tag, ext) ==
    IF LinkDest(link_tag) = None THEN Normal(ext)
    ELSE LET href == GetItem(link_tag, "href") IN
         IF href.exc # "none" THEN Raised(href.exc, ext)
         ELSE Normal(AppendTo(ext, LinkDest(link_tag), href.val))

HeadLink ==
    /\ tech = "HeadTags" /\ pc = "link"
    /\ idx < Len(find_all(doc, "link"))
    /\ LET out == HeadLinkBody(find_all(doc, "link")[idx + 1], extracted) IN
        /\ extracted' = out.extracted
        /\ pc' = IF out.exc = "none" THEN "link" ELSE "error"
    /\ idx' = idx + 1
    /\ UNCHANGED <<tech, doc, locals>>

HeadReturn ==
    /\ tech = "HeadTags" /\ pc = "link"
    /\ idx = Len(find_all(doc, "link"))
    /\ pc' = "done"
    /\ UNCHANGED <<tech, doc, idx, extracted, locals>>

InitHead ==
    /\ tech = "HeadTags" /\ pc = "title"
    /\ doc \in HeadDocs /\ idx = 0
    /\ extracted = EmptyDict
    /\ locals = EmptyDict

NextHead == HeadTitle \/ HeadMeta \/ HeadMetaDone \/ HeadLink \/ HeadReturn

SpecHead == InitHead /\ [][NextHead]_vars

-----------------------------------------------------------------------------
(* HTML5SemanticTags *)

El(tag, attrs, strings) == [tag |-> tag, attrs |-> attrs, strings |-> strings]

\* the descendants of the <article> elements of the model, in document order
ArticleBodies ==
    LET h1A == El("h1", EmptyDict, <<"A">>)
        h1B == El("h1", EmptyDict, <<"B", "b">>)
        pP  == El("p", EmptyDict, <<"P">>)
        pQ  == El("p", EmptyDict, <<"Q", "q">>)
    IN { <<>>, <<h1A>>, <<pP>>, <<h1A, pP>>, <<pQ, h1B>>, <<h1B, h1A>>,
         <<pP, pQ>>, <<h1B, pQ, pP>> }

\* the descendants of the <video> elements of the model, in document order
VideoBodies ==
    LET s1 == El("source", [src |-> "v1"], <<>>)
        s2 == El("source", [src |-> "v2"], <<>>)
        s0 == El("source", EmptyDict, <<>>)
        tr == El("track", [src |-> "t"], <<>>)
    IN { <<>>, <<s1>>, <<s0>>, <<s2, s1>>, <<s1, s0, s2>>, <<tr, s2>> }

H5Blocks ==
    { [tag |-> "article", children |-> c] : c \in ArticleBodies } \cup
    { [tag |-> "video", children |-> c] : c \in VideoBodies }

H5Docs == UNION { [1..n -> H5Blocks] : n \in 0..MaxBlocks }

\* the slip C9 rules out: article.find_all('h1'), every h1 of the article
\* becomes a title
H5ArticleBody_EveryH1(article, loc) ==
    LET h1s == find_all(article.children, "h1")
        ps == find_all(article.children, "p")
        titles == loc.titles \o [i \in 1..Len(h1s) |-> Join(" ", h1s[i].strings)]
        descriptions == IF Len(ps) > 0
                        THEN Append(loc.descriptions, Join(" ", ps[1].strings))
                        ELSE loc.descriptions
    IN [loc EXCEPT !.titles = titles, !.descriptions = descriptions]

\* the body of `for article in soup.find_all('article')`
H5ArticleBody(article, loc) ==
    LET h1s == find_all(article.children, "h1")
        ps == find_all(article.children, "p")
        titles == IF Len(h1s) > 0
                  THEN Append(loc.titles, Join(" ", h1s[1].strings))
                  ELSE loc.titles
        descriptions == IF Len(ps) > 0
                        THEN Append(loc.descriptions, Join(" ", ps[1].strings))
                        ELSE loc.descriptions
    IN [loc EXCEPT !.titles = titles, !.descriptions = descriptions]

H5Article ==
    /\ tech = "HTML5SemanticTags" /\ pc = "article"
    /\ idx < Len(find_all(doc, "article"))
    /\ locals' = H5ArticleBody(find_all(doc, "article")[idx + 1], locals)
    /\ idx' = idx + 1
    /\ UNCHANGED <<tech, pc, doc, extracted>>

H5ArticleDone ==
    /\ tech = "HTML5SemanticTags" /\ pc = "article"
    /\ idx = Len(find_all(doc, "article"))
    /\ pc' = "video" /\ idx' = 0
    /\ UNCHANGED <<tech, doc, extracted, locals>>

RECURSIVE H5Sources(_, _)
\* `for source in video.find_all('source')`: the videos list when the loop is
\* left and the exception (if any) that left it
H5Sources(sources, videos) ==
    IF Len(sources) = 0 THEN [exc |-> "none", videos |-> videos]
    ELSE IF HasAttr(sources[1], "src")
         THEN LET src == GetItem(sources[1], "src") IN
              IF src.exc # "none" THEN [exc |-> src.exc, videos |-> videos]
              ELSE H5Sources(Tail(sources), Append(videos, src.val))
         ELSE H5Sources(Tail(sources), videos)

\* the body of `for video in soup.find_all('video')`
H5VideoBody(video, loc) == H5Sources(find_all(video.children, "source"), loc.videos)

H5Video ==
    /\ tech = "HTML5SemanticTags" /\ pc = "video"
    /\ idx < Len(find_all(doc, "video"))
    /\ LET out == H5VideoBody(find_all(doc, "video")[idx + 1], locals) IN
        /\ locals' = [locals EXCEPT !.videos = out.videos]
        /\ pc' = IF out.exc = "none" THEN "video" ELSE "error"
    /\ idx' = idx + 1
    /\ UNCHANGED <<tech, doc, extracted>>

\* return {'titles':titles, 'descriptions':descriptions, 'videos':videos}
H5Result(loc) ==
    Put(Put(Put(EmptyDict, "titles", loc.titles),
            "descriptions", loc.descriptions), "videos", loc.videos)

H5Return ==
    /\ tech = "HTML5SemanticTags" /\ pc = "video"
    /\ idx = Len(find_all(doc, "video"))
    /\ extracted' = H5Result(locals)
    /\ pc' = "done"
    /\ UNCHANGED <<tech, doc, idx, locals>>

InitH5 ==
    /\ tech = "HTML5SemanticTags" /\ pc = "article"
    /\ doc \in H5Docs /\ idx = 0
    /\ extracted = EmptyDict
    /\ locals = [titles |-> <<>>, descriptions |-> <<>>, videos |-> <<>>]

NextH5 == H5Article \/ H5ArticleDone \/ H5Video \/ H5Return

SpecH5 == InitH5 /\ [][NextH5]_vars

-----------------------------------------------------------------------------
(* SemanticTags *)

\* ("name of tag", "destination list", store_first_n)
extract_string ==
    << <<"h1", "titles", 3>>,
       <<"h2", "titles", 3>>,
       <<"h3", "titles", 1>>,
       <<"p", "descriptions", 5>> >>

\* ("name of tag", "destination list", "name of attribute", store_first_n)
extract_attr == << <<"img", "images", "src", 10>> >>

\* n elements <tag>, the k-th with the text nodes tag and k; those whose
\* number is in noAttr carry no attribute, the others src
Group(tag, n, withSrc, noAttr) ==
    [k \in 1..n |->
        El(tag,
           IF withSrc /\ k \notin noAttr THEN [src |-> tag \o ToString(k)]
           ELSE EmptyDict,
           <<tag, ToString(k)>>)]

RECURSIVE Concat(_)
Concat(groups) ==
    IF Len(groups) = 0 THEN <<>> ELSE Head(groups) \o Concat(Tail(groups))

RECURSIVE RoundRobin(_)
\* one element of each group in turn, until all are used up
RoundRobin(groups) ==
    LET live == SelectSeq(groups, LAMBDA g : Len(g) > 0) IN
    IF Len(live) = 0 THEN <<>>
    ELSE [i \in 1..Len(live) |-> Head(live[i])]
         \o RoundRobin([i \in 1..Len(live) |-> Tail(live[i])])

Reverse(s) == [i \in 1..Len(s) |-> s[Len(s) + 1 - i]]

\* how the elements of a document are laid out: grouped by tag in the order
\* of the rule tables, grouped in the opposite order, or interleaved
Layouts == {"grouped", "reversed", "interleaved"}

Layout(l, groups) ==
    CASE l = "grouped"     -> Concat(groups)
      [] l = "reversed"    -> Concat(Reverse(groups))
      [] l = "interleaved" -> RoundRobin(Reverse(groups))

\* the <img> elements that may lack src: the first, the last one inside the
\* cap of extract_attr and the first one beyond it
NoSrcPositions == {1, extract_attr[1][4], extract_attr[1][4] + 1}

SemDocs ==
    { Layout(l, << Group("h1", n1, FALSE, {}), Group("h2", n2, FALSE, {}),
                   Group("h3", n3, FALSE, {}), Group("p", np, FALSE, {}),
                   Group("img", ni, TRUE, no) >>) :
        l \in Layouts, n1 \in 0..MaxH1, n2 \in 0..MaxH2, n3 \in 0..MaxH3,
        np \in {0, 1, MaxP - 1, MaxP},
        ni \in {0, 1, MaxImg - 1, MaxImg},
        no \in SUBSET NoSrcPositions }

\* lst[:n]
Take(lst, n) == SubSeq(lst, 1, IF n < Len(lst) THEN n ELSE Len(lst))

RECURSIVE SemStringLoop(_, _, _)
\* `for found in soup.find_all(tag)[:max_to_store]` of a text rule
SemStringLoop(founds, dest, ext) ==
    IF Len(founds) = 0 THEN ext
    ELSE SemStringLoop(Tail(founds), dest,
                       AppendTo(ext, dest, Join(" ", Head(founds).strings)))

\* the slip C1 rules out: max_to_store counted against what the destination
\* list already holds, so that three h1 leave no room for an h2
SemStringRule_CapPerField(rule, elems, ext) ==
    LET held == IF rule[2] \in DOMAIN ext THEN Len(ext[rule[2]]) ELSE 0
        room == IF rule[3] > held THEN rule[3] - held ELSE 0
    IN SemStringLoop(Take(find_all(elems, rule[1]), room), rule[2], ext)

\* one rule (tag, dest, max_to_store) of extract_string
SemStringRule(rule, elems, ext) ==
    SemStringLoop(Take(find_all(elems, rule[1]), rule[3]), rule[2], ext)

SemString ==
    /\ tech = "SemanticTags" /\ pc = "extract_string"
    /\ idx < Len(extract_string)
    /\ extracted' = SemStringRule(extract_string[idx + 1], doc, extracted)
    /\ idx' = idx + 1
    /\ UNCHANGED <<tech, pc, doc, locals>>

SemStringDone ==
    /\ tech = "SemanticTags" /\ pc = "extract_string"
    /\ idx = Len(extract_string)
    /\ pc' = "extract_attr" /\ idx' = 0
    /\ UNCHANGED <<tech, doc, extracted, locals>>

RECURSIVE SemAttrLoop(_, _, _, _)
\* `for found in soup.find_all(tag)[:max_to_store]` of an attribute rule
SemAttrLoop(founds, dest, attribute, ext) ==
    IF Len(founds) = 0 THEN Normal(ext)
    ELSE IF HasAttr(Head(founds), attribute)
         THEN LET v == GetItem(Head(founds), attribute) IN
              IF v.exc # "none" THEN Raised(v.exc, ext)
              ELSE SemAttrLoop(Tail(founds), dest, attribute,
                               AppendTo(ext, dest, v.val))
         ELSE SemAttrLoop(Tail(founds), dest, attribute, ext)

\* the slip C10 rules out: the elements without the attribute dropped before
\* the slice, so that max_to_store values are kept whenever there are as many
SemAttrRule_SkipThenCap(rule, elems, ext) ==
    SemAttrLoop(Take(SelectSeq(find_all(elems, rule[1]),
                               LAMBDA e : HasAttr(e, rule[3])), rule[4]),
                rule[2], rule[3], ext)

\* one rule (tag, dest, attribute, max_to_store) of extract_attr
SemAttrRule(rule, elems, ext) ==
    SemAttrLoop(Take(find_all(elems, rule[1]), rule[4]), rule[2], rule[3], ext)

SemAttr ==
    /\ tech = "SemanticTags" /\ pc = "extract_attr"
    /\ idx < Len(extract_attr)
    /\ LET out == SemAttrRule(extract_attr[idx + 1], doc, extracted) IN
        /\ extracted' = out.extracted
        /\ pc' = IF out.exc = "none" THEN "extract_attr" ELSE "error"
    /\ idx' = idx + 1
    /\ UNCHANGED <<tech, doc, locals>>

SemReturn ==
    /\ tech = "SemanticTags" /\ pc = "extract_attr"
    /\ idx = Len(extract_attr)
    /\ pc' = "done"
    /\ UNCHANGED <<tech, doc, idx, extracted, locals>>

InitSem ==
    /\ tech = "SemanticTags" /\ pc = "extract_string"
    /\ doc \in SemDocs /\ idx = 0
    /\ extracted = EmptyDict
    /\ locals = EmptyDict

NextSem == SemString \/ SemStringDone \/ SemAttr \/ SemReturn

SpecSem == InitSem /\ [][NextSem]_vars

-----------------------------------------------------------------------------
(* Any technique on any document *)

Init == InitHead \/ InitOg \/ InitH5 \/ InitSem \/ InitTw

Next == NextHead \/ NextOg \/ NextH5 \/ NextSem \/ NextTw

Spec == Init /\ [][Next]_vars

\* the two techniques that read <meta> tags into an auxiliary mapping
SpecMeta == (InitOg \/ InitTw) /\ [][NextOg \/ NextTw]_vars

-----------------------------------------------------------------------------
(* Properties.  The helpers below restate what the documentation says of a   *)
(* tag or a string character by character, without the operators of the     *)
(* model.                                                                    *)

CharAt(s, i) == SubSeq(s, i, i)

\* c occurs in s
HasChar(s, c) == \E i \in 1..Len(s) : CharAt(s, i) = c

\* s is not empty after trimming
NonBlank(s) == \E i \in 1..Len(s) : CharAt(s, i) # " "

\* v is c without its leading and trailing spaces
IsTrimOf(v, c) ==
    \E i \in 1..Len(c), j \in 1..Len(c) :
        /\ i <= j /\ SubSeq(c, i, j) = v
        /\ CharAt(c, i) # " " /\ CharAt(c, j) # " "
        /\ \A n \in 1..Len(c) : (n < i \/ n > j) => CharAt(c, n) = " "

\* key is ident without its first p characters, every ":" turned into "_"
IsNormalized(key, ident, p) ==
    /\ Len(key) = Len(ident) - p
    /\ \A i \in 1..Len(key) :
        CharAt(key, i) = IF CharAt(ident, i + p) = ":" THEN "_"
                         ELSE CharAt(ident, i + p)

HasPrefix(s, p) == Len(s) >= Len(p) /\ \A i \in 1..Len(p) : CharAt(s, i) = CharAt(p, i)

AttrIs(t, a, v) == a \in DOMAIN t.attrs /\ t.attrs[a] = v

\* t has identifier id, read from attribute `first` if present, else `second`
IdentIs(t, first, second, id) ==
    \/ AttrIs(t, first, id)
    \/ first \notin DOMAIN t.attrs /\ AttrIs(t, second, id)

\* the identifier of t starts with prefix
IdentHasPrefix(t, first, second, prefix) ==
    \/ first \in DOMAIN t.attrs /\ HasPrefix(t.attrs[first], prefix)
    \/ /\ first \notin DOMAIN t.attrs /\ second \in DOMAIN t.attrs
       /\ HasPrefix(t.attrs[second], prefix)

\* the identifier of a tag that has one
IdentOf(t, first, second) ==
    IF first \in DOMAIN t.attrs THEN t.attrs[first] ELSE t.attrs[second]

\* the tags FacebookOpengraphTags / Twitter do not skip
OgAccepted(t) ==
    /\ IdentHasPrefix(t, "property", "name", "og:")
    /\ "content" \in DOMAIN t.attrs /\ NonBlank(t.attrs["content"])

TwAccepted(t) ==
    /\ IdentHasPrefix(t, "name", "property", "twitter:")
    /\ "content" \in DOMAIN t.attrs

OgDone == tech = "FacebookOpengraphTags" /\ pc = "done"
TwDone == tech = "Twitter" /\ pc = "done"

\* C2 as stated: og_tags is in the result iff some <meta> tag has property
\* "og:type" or name "og:type".
C2_OgTagsIffOgTypeAttribute ==
    OgDone =>
        (("og_tags" \in DOMAIN extracted) <=>
            \E i \in 1..Len(doc) :
                AttrIs(doc[i], "property", "og:type") \/ AttrIs(doc[i], "name", "og:type"))

\* C2 amended: og_tags is in the result iff some <meta> tag whose identifier
\* (property if present, else name) is "og:type" has a content that is not
\* empty after trimming.
C2_OgTagsIffOgTypeWithContent ==
    OgDone =>
        (("og_tags" \in DOMAIN extracted) <=>
            \E i \in 1..Len(doc) :
                /\ IdentIs(doc[i], "property", "name", "og:type")
                /\ OgAccepted(doc[i]))

C2_Witness ==
    /\ OgDone /\ "og_tags" \in DOMAIN extracted
    /\ \E i \in 1..Len(doc) :
        AttrIs(doc[i], "name", "og:type") /\ "property" \in DOMAIN doc[i].attrs

\* C3 as stated: twitter_cards is in the result iff some <meta> tag has the
\* identifier (name if present, else property) "twitter:card"; when present it
\* has length 1.
C3_CardsIffCardIdentifier ==
    TwDone =>
        /\ ("twitter_cards" \in DOMAIN extracted) <=>
            \E i \in 1..Len(doc) : IdentIs(doc[i], "name", "property", "twitter:card")
        /\ "twitter_cards" \in DOMAIN extracted => Len(extracted["twitter_cards"]) = 1

\* C3 amended: twitter_cards is in the result iff some <meta> tag whose
\* identifier (name if present, else property) is "twitter:card" has a content
\* attribute; when present it has length 1.
C3_CardsIffCardWithContent ==
    TwDone =>
        /\ ("twitter_cards" \in DOMAIN extracted) <=>
            \E i \in 1..Len(doc) :
                /\ IdentIs(doc[i], "name", "property", "twitter:card")
                /\ "content" \in DOMAIN doc[i].attrs
        /\ "twitter_cards" \in DOMAIN extracted => Len(extracted["twitter_cards"]) = 1

C3_Witness ==
    /\ TwDone /\ "twitter_cards" \in DOMAIN extracted
    /\ \E i \in 1..Len(doc) :
        /\ AttrIs(doc[i], "property", "twitter:card")
        /\ "name" \notin DOMAIN doc[i].attrs

\* an og: tag with content whose full identifier is not in the property map
OgUnmapped(t) ==
    /\ OgAccepted(t)
    /\ \A id \in DOMAIN property_map : ~IdentIs(t, "property", "name", id)

\* C6: a step of the loop on an og: tag with non-empty trimmed content whose
\* identifier is not in the property map puts (normalized key, trimmed content)
\* into og_tags, changes no other key of og_tags, leaves extracted (every field
\* sequence) as it was, and leaves the loop running for the tags after it.
C6_UnmappedOnlyInOgTags ==
    [][ ( /\ tech = "FacebookOpengraphTags" /\ pc = "meta"
          /\ Len(doc') = Len(doc) + 1
          /\ OgUnmapped(doc'[Len(doc')]) )
        => LET t == doc'[Len(doc')]
               old == locals.og_tags
               new == locals'.og_tags
           IN /\ \E k \in DOMAIN new :
                    /\ IsNormalized(k, IdentOf(t, "property", "name"), 3)
                    /\ IsTrimOf(new[k], t.attrs["content"])
                    /\ DOMAIN new = DOMAIN old \cup {k}
                    /\ \A x \in DOMAIN old \ {k} : new[x] = old[x]
              /\ extracted' = extracted
              /\ pc' = "meta"
      ]_vars

\* an unmapped tag was stored, and the tag after it was processed and stored
C6_Witness ==
    /\ tech = "FacebookOpengraphTags" /\ pc = "meta" /\ Len(doc) = 2
    /\ OgUnmapped(doc[1]) /\ AttrIs(doc[1], "property", "og:site_name")
    /\ "site_name" \in DOMAIN locals.og_tags
    /\ IdentIs(doc[2], "property", "name", "og:type")
    /\ "types" \in DOMAIN extracted
    /\ "type" \in DOMAIN locals.og_tags

\* the last of the indices in S
LastOf(S) == CHOOSE i \in S : \A j \in S : j <= i

\* mapping holds, for every key, the value of the last tag so far that was
\* not skipped and normalizes to that key, and holds no other key
LastWins(mapping, first, second, p, Accepted(_), IsValue(_, _)) ==
    /\ \A k \in DOMAIN mapping :
        LET S == {i \in 1..Len(doc) :
                    /\ Accepted(doc[i])
                    /\ IsNormalized(k, IdentOf(doc[i], first, second), p)}
        IN /\ S # {}
           /\ IsValue(mapping[k], doc[LastOf(S)].attrs["content"])
    /\ \A i \in 1..Len(doc) :
        Accepted(doc[i]) =>
            \E k \in DOMAIN mapping : IsNormalized(k, IdentOf(doc[i], first, second), p)

C8_NoColonInKeys ==
    /\ tech = "FacebookOpengraphTags" =>
        \A k \in DOMAIN locals.og_tags : ~HasChar(k, ":")
    /\ tech = "Twitter" =>
        \A k \in DOMAIN locals.card : ~HasChar(k, ":")
    /\ (OgDone /\ "og_tags" \in DOMAIN extracted) =>
        \A k \in DOMAIN extracted["og_tags"] : ~HasChar(k, ":")
    /\ (TwDone /\ "twitter_cards" \in DOMAIN extracted) =>
        \A n \in 1..Len(extracted["twitter_cards"]) :
            \A k \in DOMAIN extracted["twitter_cards"][n] : ~HasChar(k, ":")

\* a returned card with a key made from an identifier with several ":"
C8_Witness ==
    /\ TwDone /\ "twitter_cards" \in DOMAIN extracted
    /\ \E i \in 1..Len(doc) :
        AttrIs(doc[i], "name", "twitter:app:id:ipad") /\ TwAccepted(doc[i])
    /\ "app_id_ipad" \in DOMAIN extracted["twitter_cards"][1]

\* the field names a result may carry
FieldVocabulary ==
    {"titles", "descriptions", "images", "urls", "feeds", "videos", "authors",
     "types", "og_tags", "twitter_cards"}

\* C5: no extract ends in an error: it is never left by an exception, and
\* what it returns is a mapping over the field vocabulary.
C5_NeverAnError ==
    /\ pc # "error"
    /\ pc = "done" => DOMAIN extracted \subseteq FieldVocabulary

\* a result returned for a document with a <meta> that has neither property
\* nor name and one that has an identifier but no content
C5_Witness ==
    /\ OgDone /\ Len(doc) = 2
    /\ DOMAIN doc[1].attrs = {}
    /\ DOMAIN doc[2].attrs = {"property"} /\ AttrIs(doc[2], "property", "og:type")

-----------------------------------------------------------------------------
(* Properties of HeadTags, HTML5SemanticTags and SemanticTags *)

\* extracted[k], or the empty sequence when the key is absent
Field(k) == IF k \in DOMAIN extracted THEN extracted[k] ELSE <<>>

\* the j-th smallest element of a set of numbers
Nth(S, j) == CHOOSE x \in S : Cardinality({y \in S : y < x}) = j - 1

\* positions in elems, in document order, of the elements satisfying P
Positions(elems, P(_)) == {p \in 1..Len(elems) : P(elems[p])}

\* a <link> with an href whose rel contains canonical
CanonicalLink(e) ==
    /\ e.tag = "link"
    /\ "rel" \in DOMAIN e.attrs /\ "href" \in DOMAIN e.attrs
    /\ \E i \in 1..Len(e.attrs["rel"]) : e.attrs["rel"][i] = "canonical"

\* a <link> that the feeds branch takes
RssAlternateLink(e) ==
    /\ e.tag = "link"
    /\ "rel" \in DOMAIN e.attrs /\ "href" \in DOMAIN e.attrs
    /\ \E i \in 1..Len(e.attrs["rel"]) : e.attrs["rel"][i] = "alternate"
    /\ AttrIs(e, "type", "application/rss+xml")

\* seq holds exactly the hrefs of the elements at the positions S, in order
HrefsOf(seq, S) ==
    /\ Len(seq) = Cardinality(S)
    /\ \A j \in 1..Len(seq) : seq[j] = doc[Nth(S, j)].attrs["href"]

\* C4: when HeadTags.extract returns, urls holds the href of every <link> that
\* has an href and whose rel contains canonical, whatever else the tag carries,
\* in document order.
C4_UrlsHoldEveryCanonicalHref ==
    (tech = "HeadTags" /\ pc = "done") =>
        HrefsOf(Field("urls"), Positions(doc, CanonicalLink))

\* what the code does: the canonical links that are not RSS alternates
C4_UrlsHoldCanonicalNotFeedHrefs ==
    (tech = "HeadTags" /\ pc = "done") =>
        HrefsOf(Field("urls"),
                Positions(doc, LAMBDA e : CanonicalLink(e) /\ ~RssAlternateLink(e)))

IsArticle(e) == e.tag = "article"
IsVideo(e) == e.tag = "video"
HasChild(e, tag) == \E c \in 1..Len(e.children) : e.children[c].tag = tag

\* the first child of e with the given tag
FirstChild(e, tag) ==
    e.children[Nth({c \in 1..Len(e.children) : e.children[c].tag = tag}, 1)]

\* seq holds, for the articles that have a `tag` descendant and in document
\* order of the articles, the text of their first such descendant
FirstTexts(seq, tag) ==
    LET S == Positions(doc, LAMBDA e : IsArticle(e) /\ HasChild(e, tag)) IN
    /\ Len(seq) = Cardinality(S)
    /\ \A j \in 1..Len(seq) :
        seq[j] = Join(" ", FirstChild(doc[Nth(S, j)], tag).strings)

\* C9: HTML5SemanticTags.extract never fails and returns exactly the keys
\* titles, descriptions and videos; without <article> and <video> all three
\* are empty; titles and descriptions have at most one entry per <article>,
\* the first h1 / p of the articles in document order of the articles.
C9_Html5Result ==
    /\ tech = "HTML5SemanticTags" => pc # "error"
    /\ (tech = "HTML5SemanticTags" /\ pc = "done") =>
        /\ DOMAIN extracted = {"titles", "descriptions", "videos"}
        /\ (Positions(doc, IsArticle) = {} /\ Positions(doc, IsVideo) = {}) =>
            /\ extracted["titles"] = <<>>
            /\ extracted["descriptions"] = <<>>
            /\ extracted["videos"] = <<>>
        /\ Len(extracted["titles"]) <= Cardinality(Positions(doc, IsArticle))
        /\ Len(extracted["descriptions"]) <= Cardinality(Positions(doc, IsArticle))
        /\ FirstTexts(extracted["titles"], "h1")
        /\ FirstTexts(extracted["descriptions"], "p")

\* three articles: one with two h1, one without h1, one with h1 after p
C9_Witness ==
    /\ tech = "HTML5SemanticTags" /\ pc = "done" /\ Len(doc) = 3
    /\ \A i \in 1..3 : IsArticle(doc[i])
    /\ Len(find_all(doc[1].children, "h1")) = 2
    /\ ~HasChild(doc[2], "h1")
    /\ extracted["titles"] = <<"B b", "B b">>
    /\ extracted["descriptions"] = <<"P", "Q q">>

\* the document without any <article> or <video> has been processed
C9_EmptyWitness ==
    /\ tech = "HTML5SemanticTags" /\ pc = "done" /\ doc = <<>>

SemDone == tech = "SemanticTags" /\ pc = "done"

Count(tag) == Cardinality(Positions(doc, LAMBDA e : e.tag = tag))

\* the text of the j-th <tag> element of the document
TextOfNth(tag, j) ==
    Join(" ", doc[Nth(Positions(doc, LAMBDA e : e.tag = tag), j)].strings)

IsTextOf(text, tag) == \E j \in 1..Count(tag) : text = TextOfNth(tag, j)

Min(a, b) == IF a < b THEN a ELSE b

\* C1 as stated: with 5 <h1> and 2 <h2>, titles has exactly 3 entries, the
\* texts of the first <h1> elements in document order, and no <h2> text.
C1_TitlesAreThreeH1Only ==
    (SemDone /\ Count("h1") = 5 /\ Count("h2") = 2) =>
        /\ Len(Field("titles")) = 3
        /\ \A j \in 1..Len(Field("titles")) :
            /\ Field("titles")[j] = TextOfNth("h1", j)
            /\ ~IsTextOf(Field("titles")[j], "h2")

\* C1 amended: with 5 <h1> and 2 <h2>, titles starts with exactly 3 <h1>
\* texts, the first three in document order; the texts of both <h2> follow
\* them in document order, and then the first <h3> if there is one.
C1_TitlesAreThreeH1ThenH2 ==
    (SemDone /\ Count("h1") = 5 /\ Count("h2") = 2) =>
        LET titles == Field("titles") IN
        /\ Len(titles) = 5 + Min(1, Count("h3"))
        /\ \A j \in 1..3 : titles[j] = TextOfNth("h1", j)
        /\ \A j \in 1..2 : titles[3 + j] = TextOfNth("h2", j)
        /\ Count("h3") > 0 => titles[6] = TextOfNth("h3", 1)
        /\ \A j \in 1..Len(titles) : ~IsTextOf(titles[j], "h1") \/ j <= 3

\* 5 <h1> and 2 <h2>, the first <h2> before the first <h1>
C1_Witness ==
    /\ SemDone /\ Count("h1") = 5 /\ Count("h2") = 2 /\ Count("h3") = 0
    /\ Nth(Positions(doc, LAMBDA e : e.tag = "h2"), 1)
         < Nth(Positions(doc, LAMBDA e : e.tag = "h1"), 1)
    /\ Len(Field("titles")) = 5

\* seq holds the texts of the first Min(cap, Count(tag)) <tag> elements from
\* index `from` + 1 on, in document order
TextsAt(seq, from, tag, cap) ==
    \A j \in 1..Min(cap, Count(tag)) :
        from + j <= Len(seq) /\ seq[from + j] = TextOfNth(tag, j)

\* the <img> elements inside the cap that carry src
CappedImgs ==
    LET imgs == Positions(doc, LAMBDA e : e.tag = "img") IN
    {p \in imgs : Cardinality({q \in imgs : q <= p}) <= 10 /\ "src" \in DOMAIN doc[p].attrs}

\* C10: when SemanticTags.extract returns, titles holds the first (at most 3)
\* h1 texts, then the first (at most 3) h2 texts, then the first (at most 1) h3
\* text, wherever the elements sit in the document; descriptions holds the
\* first (at most 5) p texts; images holds the src of those of the first 10
\* <img> elements that have one.
C10_CapsAndRuleOrder ==
    SemDone =>
        LET titles == Field("titles")
            n1 == Min(3, Count("h1"))
            n2 == Min(3, Count("h2"))
            n3 == Min(1, Count("h3"))
        IN
        /\ Len(titles) = n1 + n2 + n3
        /\ TextsAt(titles, 0, "h1", 3)
        /\ TextsAt(titles, n1, "h2", 3)
        /\ TextsAt(titles, n1 + n2, "h3", 1)
        /\ Len(Field("descriptions")) = Min(5, Count("p"))
        /\ TextsAt(Field("descriptions"), 0, "p", 5)
        /\ Len(Field("images")) = Cardinality(CappedImgs)
        /\ Len(Field("images")) <= 10
        /\ \A j \in 1..Len(Field("images")) :
            Field("images")[j] = doc[Nth(CappedImgs, j)].attrs["src"]

\* every cap is exceeded, the elements are interleaved, and an <img> inside the
\* cap has no src while the one beyond the cap has
C10_Witness ==
    /\ SemDone
    /\ Count("h1") > 3 /\ Count("h2") > 3 /\ Count("h3") > 1
    /\ Count("p") > 5 /\ Count("img") > 10
    /\ doc[1].tag = "img" /\ doc[2].tag = "p"
    /\ "src" \notin DOMAIN doc[1].attrs
    /\ Len(Field("images")) = 9
    /\ Len(Field("titles")) = 7

====
